---- MODULE Spec2Model ----
(***************************************************************************)
(* slackblocks: the construction-and-resolution pipeline of Text,          *)
(* Elements, Blocks, Views and modal responses.                            *)
(*                                                                         *)
(* Python values are records tagged with their class: None, str, bool,     *)
(* int, list, dict, Enum members and the library's node objects.  A call   *)
(* returns an outcome: status "ok" with the returned value, or the name of *)
(* the exception that left the call.                                       *)
(*                                                                         *)
(* Record constructors list their fields in the order in which TLC keeps   *)
(* the fields of a record (the order in which the names first occur in     *)
(* this module), so that TLC's workers never reorder a record they share.  *)
(***************************************************************************)
EXTENDS Integers, Sequences, FiniteSets, TLC

VARIABLES
    obj,      \* the node the caller constructed last (None before any)
    blocks,   \* the caller's list of blocks, handed to the view constructors
    result,   \* the last call: [op, args, status, value]
    prev,     \* the resolve call on obj just before the last one (None if none)
    uuid      \* number of uuid4() tokens issued so far

vars == <<obj, blocks, result, prev, uuid>>

-----------------------------------------------------------------------------
(* Python values *)

None == [class |-> "NoneType"]
Str(s) == [class |-> "str", v |-> s]
Bool(b) == [class |-> "bool", v |-> b]
Num(n) == [class |-> "int", v |-> n]
List(s) == [class |-> "list", items |-> s]
Dict(f) == [class |-> "dict", items |-> f]
EmptyDict == Dict([k \in {} |-> None])

False == Bool(FALSE)
True == Bool(TRUE)

\* d[k] = v
SetItem(d, k, v) == Dict((k :> v) @@ d.items)

\* bool(x): None, "", 0, False, [] and {} are falsy; the library's objects
\* define neither __bool__ nor __len__ and are truthy.
Truthy(x) ==
    CASE x.class = "NoneType" -> FALSE
      [] x.class = "str" -> Len(x.v) > 0
      [] x.class = "bool" -> x.v
      [] x.class = "int" -> x.v # 0
      [] x.class = "list" -> Len(x.items) > 0
      [] x.class = "dict" -> DOMAIN x.items # {}
      [] OTHER -> TRUE

\* s * n for a one-character s
RECURSIVE Rep(_, _)
Rep(ch, n) ==
    IF n = 0 THEN ""
    ELSE IF n % 2 = 0 THEN LET h == Rep(ch, n \div 2) IN h \o h
    ELSE ch \o Rep(ch, n - 1)

-----------------------------------------------------------------------------
(* Outcomes of calls *)

Ok(v) == [status |-> "ok", value |-> v]
Raise(e) == [status |-> e, value |-> None]

\* statements run in order: the first outcome of s that raised leaves the
\* call, otherwise the call goes on to produce v
RECURSIVE FirstError(_, _)
FirstError(s, v) ==
    IF s = <<>> THEN Ok(v)
    ELSE IF Head(s).status # "ok" THEN Head(s)
    ELSE FirstError(Tail(s), v)

-----------------------------------------------------------------------------
(* elements/base_elements.py *)

ElementType(v) == [class |-> "ElementType", value |-> v]
TextType(v) == [class |-> "TextType", value |-> v]
MARKDOWN == TextType("mrkdwn")
PLAINTEXT == TextType("plain_text")

\* an _attributes that forgets the kind tag
Element_attributes_untyped(self) == EmptyDict

Element_attributes(self) == Dict([type |-> Str(self.type.value)])

Text(text, type_, emoji, verbatim) ==
    [class |-> "Text",
     type |-> ElementType("text"),
     text |-> text,
     emoji |-> IF type_ = MARKDOWN THEN None ELSE emoji,
     verbatim |-> IF type_ = MARKDOWN THEN verbatim ELSE None,
     text_type |-> type_]

\* x._resolve(), dispatched on the class of x (defined after the classes)
RECURSIVE resolve(_)

Text_resolve(self) ==
    LET text == Dict([type |-> Str(self.text_type.value), text |-> self.text])
    IN  IF self.text_type = MARKDOWN
        THEN Ok(SetItem(text, "verbatim", self.verbatim))
        ELSE IF self.type = PLAINTEXT /\ Truthy(self.emoji)
        THEN Ok(SetItem(text, "emoji", self.emoji))
        ELSE Ok(text)

\* len(x): only str and list have a length here
len(x) ==
    CASE x.class = "str" -> Ok(Num(Len(x.v)))
      [] x.class = "list" -> Ok(Num(Len(x.items)))
      [] OTHER -> Raise("TypeError")

to_text(text, force_plaintext, max_length) ==
    LET type_ == IF force_plaintext THEN PLAINTEXT ELSE MARKDOWN
    IN  IF ~Truthy(text) THEN Ok(None)
        ELSE IF text.class = "str"
        THEN IF Truthy(max_length) /\ Len(text.v) > max_length.v
             THEN Raise("InvalidUsageError")
             ELSE Ok(Text(text, type_, False, False))
        ELSE IF Truthy(max_length) /\ len(text).status # "ok"
        THEN len(text)
        ELSE IF Truthy(max_length) /\ len(text).value.v > max_length.v
        THEN Raise("InvalidUsageError")
        ELSE Ok(Text(text.text, type_, False, False))

-----------------------------------------------------------------------------
(* Building the resolved mapping *)

\* acc[k] = <r>, as one statement of a _resolve body
Put(acc, k, r) ==
    IF acc.status # "ok" THEN acc
    ELSE IF r.status # "ok" THEN r
    ELSE Ok(SetItem(acc.value, k, r.value))

\* if c: acc[k] = <r>
PutIf(acc, c, k, r) == IF acc.status = "ok" /\ c THEN Put(acc, k, r) ELSE acc

-----------------------------------------------------------------------------
(* elements/common_elements.py *)

Image(image_url, alt_text) ==
    Ok([class |-> "Image", type |-> ElementType("image"),
        image_url |-> image_url, alt_text |-> alt_text])

Image_resolve(self) ==
    Put(Put(Ok(Element_attributes(self)),
        "image_url", Ok(self.image_url)),
        "alt_text", Ok(self.alt_text))

Confirm(title, text, confirm, deny) ==
    LET t == to_text(title, TRUE, Num(100))
        x == to_text(text, FALSE, Num(300))
        c == to_text(confirm, TRUE, Num(30))
        d == to_text(deny, TRUE, Num(30))
    IN  FirstError(<<t, x, c, d>>,
            [class |-> "Confirm", type |-> ElementType("confirm"),
             text |-> x.value, title |-> t.value,
             confirm |-> c.value, deny |-> d.value])

Confirm_resolve(self) ==
    Put(Put(Put(Put(Ok(EmptyDict),
        "title", resolve(self.title)),
        "text", resolve(self.text)),
        "confirm", resolve(self.confirm)),
        "deny", resolve(self.deny))

Button(text, action_id, url, value, style, confirm) ==
    LET t == to_text(text, TRUE, Num(75))
    IN  FirstError(<<t>>,
            [class |-> "Button", value |-> value,
             type |-> ElementType("button"), text |-> t.value, confirm |-> confirm,
             action_id |-> action_id, url |-> url, style |-> style])

Button_resolve(self) ==
    LET b1 == Put(Ok(Element_attributes(self)), "text", resolve(self.text))
        b2 == Put(b1, "action_id", Ok(self.action_id))
        b3 == PutIf(b2, Truthy(self.style), "style", Ok(self.style))
        b4 == PutIf(b3, Truthy(self.url), "url", Ok(self.url))
        b5 == PutIf(b4, Truthy(self.value), "value", Ok(self.value))
    IN  PutIf(b5, Truthy(self.confirm), "confirm", resolve(self.confirm))

DispatchActionConfig(on_character_entered, on_enter_pressed) ==
    Ok([class |-> "DispatchActionConfig",
        on_character_entered |-> on_character_entered,
        on_enter_pressed |-> on_enter_pressed])

DispatchActionConfig_resolve(self) ==
    LET a1 == IF Truthy(self.on_character_entered)
              THEN <<Str("on_character_entered")>> ELSE <<>>
        a2 == IF Truthy(self.on_enter_pressed)
              THEN Append(a1, Str("on_enter_pressed")) ELSE a1
    IN  Ok(Dict([trigger_actions_on |-> List(a2)]))

TextInput(action_id, placeholder, initial_value, multiline, min_length, max_length, dispatch_config) ==
    LET p == to_text(placeholder, TRUE, Num(150))
    IN  FirstError(<<p>>,
            [class |-> "TextInput", type |-> ElementType("plain_text_input"),
             max_length |-> max_length, action_id |-> action_id,
             placeholder |-> p.value, initial_value |-> initial_value,
             multiline |-> multiline, min_length |-> min_length,
             dispatch_config |-> dispatch_config])

TextInput_resolve(self) ==
    LET i1 == Put(Ok(Element_attributes(self)), "action_id", Ok(self.action_id))
        i2 == Put(i1, "multiline", Ok(self.multiline))
        i3 == PutIf(i2, Truthy(self.placeholder), "placeholder",
                    resolve(self.placeholder))
        i4 == PutIf(i3, Truthy(self.initial_value), "initial_value",
                    Ok(self.initial_value))
        i5 == PutIf(i4, Truthy(self.min_length), "min_length", Ok(self.min_length))
        i6 == PutIf(i5, Truthy(self.max_length), "max_length", Ok(self.max_length))
    IN  PutIf(i6, Truthy(self.dispatch_config), "dispatch_action_config",
              resolve(self.dispatch_config))


-----------------------------------------------------------------------------
(* elements/selector_elements.py *)

\* what a list comprehension evaluates to, given what each item's expression
\* did: the first error raised, or the list of the values
Collect(rs) ==
    LET bad == {i \in 1..Len(rs) : rs[i].status # "ok"}
    IN  IF bad # {}
        THEN rs[CHOOSE i \in bad : \A j \in bad : i <= j]
        ELSE Ok(List([i \in 1..Len(rs) |-> rs[i].value]))

\* [x._resolve() for x in xs]
Comprehension(xs) ==
    IF xs.class # "list" THEN Raise("TypeError")
    ELSE Collect([i \in 1..Len(xs.items) |-> resolve(xs.items[i])])

OptionObject(text, value, description, url) ==
    LET t == to_text(text, TRUE, Num(75))
        d == to_text(description, TRUE, Num(75))
    IN  FirstError(<<t, d>>,
            [class |-> "OptionObject", value |-> value, text |-> t.value,
             url |-> url, description |-> d.value])

OptionObject_resolve(self) ==
    LET o1 == Put(Ok(EmptyDict), "text", resolve(self.text))
        o2 == Put(o1, "value", Ok(self.value))
        o3 == PutIf(o2, Truthy(self.description), "description",
                    resolve(self.description))
    IN  PutIf(o3, Truthy(self.url), "url", Ok(self.url))

OptionGroup(label, options) ==
    LET l == to_text(label, TRUE, Num(75))
    IN  FirstError(<<l>>,
            [class |-> "OptionGroup", label |-> l.value, options |-> options])

OptionGroup_resolve(self) ==
    Put(Put(Ok(EmptyDict),
        "label", resolve(self.label)),
        "options", Comprehension(self.options))

\* the constructor without the check that rejects both being passed
StaticSelect_both(action_id, placeholder, options, option_group, initial_option, confirm) ==
    IF ~Truthy(options) /\ ~Truthy(option_group) THEN Raise("InvalidUsageError")
    ELSE LET p == to_text(placeholder, TRUE, Num(150))
         IN  FirstError(<<p>>,
                 [class |-> "StaticSelect", type |-> ElementType("static_select"),
                  confirm |-> confirm, action_id |-> action_id,
                  placeholder |-> p.value, options |-> options,
                  option_group |-> option_group, initial_option |-> initial_option])

StaticSelect(action_id, placeholder, options, option_group, initial_option, confirm) ==
    IF ~Truthy(options) /\ ~Truthy(option_group) THEN Raise("InvalidUsageError")
    ELSE IF Truthy(options) /\ Truthy(option_group) THEN Raise("InvalidUsageError")
    ELSE LET p == to_text(placeholder, TRUE, Num(150))
         IN  FirstError(<<p>>,
                 [class |-> "StaticSelect", type |-> ElementType("static_select"),
                  confirm |-> confirm, action_id |-> action_id,
                  placeholder |-> p.value, options |-> options,
                  option_group |-> option_group, initial_option |-> initial_option])

StaticSelect_resolve(self) ==
    LET e1 == Put(Ok(Element_attributes(self)), "placeholder",
                  resolve(self.placeholder))
        e2 == Put(e1, "action_id", Ok(self.action_id))
        e3 == IF Truthy(self.options)
              THEN Put(e2, "options",
                       Comprehension(self.options))
              ELSE PutIf(e2, Truthy(self.option_group), "option_group",
                         resolve(self.option_group))
        e4 == PutIf(e3, Truthy(self.initial_option), "initial_option",
                    resolve(self.initial_option))
    IN  PutIf(e4, Truthy(self.confirm), "confirm",
              resolve(self.confirm))

CheckboxSelector(action_id, options, initial_options, confirm) ==
    Ok([class |-> "CheckboxSelector", type |-> ElementType("checkboxes"),
        confirm |-> confirm, action_id |-> action_id,
        options |-> options, initial_options |-> initial_options])

CheckboxSelector_resolve(self) ==
    LET e1 == Put(Ok(Element_attributes(self)), "action_id", Ok(self.action_id))
        e2 == PutIf(e1, Truthy(self.options), "options",
                    Comprehension(self.options))
        e3 == PutIf(e2, Truthy(self.initial_options), "initial_options",
                    Comprehension(self.initial_options))
    IN  PutIf(e3, Truthy(self.confirm), "confirm", Ok(self.confirm))

MultiUsersSelect(action_id, placeholder, initial_users, max_selected_items, confirm) ==
    LET p == to_text(placeholder, TRUE, Num(150))
    IN  FirstError(<<p>>,
            [class |-> "MultiUsersSelect",
             type |-> ElementType("multi_users_select"),
             confirm |-> confirm, action_id |-> action_id,
             placeholder |-> p.value,
             initial_users |-> initial_users, max_selected_items |-> max_selected_items])

MultiUsersSelect_resolve(self) ==
    LET e1 == Put(Ok(Element_attributes(self)), "placeholder",
                  resolve(self.placeholder))
        e2 == Put(e1, "action_id", Ok(self.action_id))
        e3 == IF Truthy(self.max_selected_items)
              THEN Put(e2, "max_selected_items", Ok(self.max_selected_items))
              ELSE PutIf(e2, Truthy(self.initial_users), "initial_users",
                         Ok(self.initial_users))
    IN  PutIf(e3, Truthy(self.confirm), "confirm", Ok(self.confirm))

-----------------------------------------------------------------------------
(* elements/time_elements.py *)

\* datetime.time and datetime.datetime values, and strftime's zero-padded
\* fields
Time(hour, minute) == [class |-> "time", hour |-> hour, minute |-> minute]
Date(year, month, day) ==
    [class |-> "datetime", year |-> year, month |-> month, day |-> day]

Pad2(n) == IF n < 10 THEN "0" \o ToString(n) ELSE ToString(n)

strftime(x) ==
    CASE x.class = "time" -> Ok(Str(Pad2(x.hour) \o ":" \o Pad2(x.minute)))
      [] x.class = "datetime" ->
            Ok(Str(ToString(x.year) \o "-" \o Pad2(x.month) \o "-" \o Pad2(x.day)))
      [] OTHER -> Raise("AttributeError")

TimePicker(action_id, initial_time, placeholder, confirm) ==
    LET p == to_text(placeholder, TRUE, Num(75))
    IN  FirstError(<<p>>,
            [class |-> "TimePicker", type |-> ElementType("timepicker"),
             confirm |-> confirm, action_id |-> action_id,
             placeholder |-> p.value, initial_time |-> initial_time])

TimePicker_resolve(self) ==
    LET t1 == Put(Ok(Element_attributes(self)), "placeholder",
                  resolve(self.placeholder))
        t2 == Put(t1, "action_id", Ok(self.action_id))
        t3 == PutIf(t2, Truthy(self.initial_time), "initial_time",
                    strftime(self.initial_time))
    IN  PutIf(t3, Truthy(self.confirm), "confirm",
              resolve(self.confirm))

DatePicker(action_id, initial_date, placeholder, confirm) ==
    LET p == to_text(placeholder, TRUE, Num(75))
    IN  FirstError(<<p>>,
            [class |-> "DatePicker", type |-> ElementType("datepicker"),
             confirm |-> confirm, action_id |-> action_id,
             placeholder |-> p.value, initial_date |-> initial_date])

DatePicker_resolve(self) ==
    LET d1 == Put(Ok(Element_attributes(self)), "action_id", Ok(self.action_id))
        d2 == PutIf(d1, Truthy(self.placeholder), "placeholder",
                    resolve(self.placeholder))
        d3 == PutIf(d2, Truthy(self.initial_date), "initial_date",
                    strftime(self.initial_date))
    IN  PutIf(d3, Truthy(self.confirm), "confirm",
              resolve(self.confirm))


-----------------------------------------------------------------------------
(* blocks.py *)

BlockType(v) == [class |-> "BlockType", value |-> v]

\* a generator that returns the same token at every call
uuid4_repeating(n) == Str("uuid4-0")

\* str(uuid4()) at the n-th call: a token no earlier call returned
uuid4(n) == Str("uuid4-" \o ToString(n))

\* the fields Block.__init__ sets; fresh is what uuid4() returns if called
Block_init(type_, block_id, fresh) ==
    [type |-> type_,
     block_id |-> IF Truthy(block_id) THEN block_id ELSE fresh]

\* _attributes drawing a new token whenever the caller has just resolved
Block_attributes_regenerating(self) ==
    Dict([type |-> Str(self.type.value),
          block_id |-> IF result.op = "_resolve" THEN uuid4(uuid + 1)
                       ELSE self.block_id])

Block_attributes(self) ==
    Dict([type |-> Str(self.type.value), block_id |-> self.block_id])

IsElement(x) ==
    x.class \in {"Text", "Image", "Confirm", "Button", "TextInput",
                 "StaticSelect", "CheckboxSelector", "MultiUsersSelect",
                 "TimePicker", "DatePicker"}

\* the items of xs that are truthy, in order
RECURSIVE Filter(_)
Filter(xs) ==
    IF xs = <<>> THEN <<>>
    ELSE IF Truthy(Head(xs)) THEN <<Head(xs)>> \o Filter(Tail(xs))
    ELSE Filter(Tail(xs))

SectionField(field) == to_text(field, FALSE, Num(2000))

SectionBlock(text, block_id, fields, accessory, fresh) ==
    LET t == to_text(text, FALSE, Num(2000))
        f == IF ~Truthy(fields) THEN Ok(None)
             ELSE LET kept == Filter(fields.items)
                  IN  Collect([i \in 1..Len(kept) |-> SectionField(kept[i])])
    IN  FirstError(<<t, f>>,
            [class |-> "SectionBlock", text |-> t.value, fields |-> f.value,
             accessory |-> accessory]
            @@ Block_init(BlockType("section"), block_id, fresh))

SectionBlock_resolve(self) ==
    LET s1 == PutIf(Ok(Block_attributes(self)), Truthy(self.text), "text",
                    resolve(self.text))
        s2 == PutIf(s1, Truthy(self.fields), "fields",
                    Comprehension(self.fields))
    IN  PutIf(s2, Truthy(self.accessory), "accessory",
              resolve(self.accessory))

DividerBlock(block_id, fresh) ==
    Ok([class |-> "DividerBlock"]
       @@ Block_init(BlockType("divider"), block_id, fresh))

DividerBlock_resolve(self) == Ok(Block_attributes(self))

\* the constructor keeping a Text title as given, whatever its kind
ImageBlock_keeping(image_url, alt_text, title, block_id, fresh) ==
    LET t == IF Truthy(title) /\ title.class = "Text" THEN title
             ELSE IF Truthy(title) THEN Text(title, PLAINTEXT, False, False)
             ELSE Text(Str(" "), PLAINTEXT, False, False)
    IN  Ok([class |-> "ImageBlock", image_url |-> image_url,
            alt_text |-> alt_text, title |-> t]
           @@ Block_init(BlockType("image"), block_id, fresh))

ImageBlock(image_url, alt_text, title, block_id, fresh) ==
    LET t == IF Truthy(title) /\ title.class = "Text"
             THEN IF title.text_type = MARKDOWN
                  THEN Text(title.text, PLAINTEXT, title.emoji, title.verbatim)
                  ELSE title
             ELSE IF Truthy(title) THEN Text(title, PLAINTEXT, False, False)
             ELSE Text(Str(" "), PLAINTEXT, False, False)
    IN  Ok([class |-> "ImageBlock", image_url |-> image_url,
            alt_text |-> alt_text, title |-> t]
           @@ Block_init(BlockType("image"), block_id, fresh))

ImageBlock_resolve(self) ==
    LET i1 == Put(Ok(Block_attributes(self)), "image_url", Ok(self.image_url))
        i2 == Put(i1, "alt_text", Ok(self.alt_text))
    IN  PutIf(i2, Truthy(self.title), "title", resolve(self.title))

\* self.elements is assigned in neither branch when elements is not an
\* Element and not a list of Elements: the object then has no such field
ActionsBlock(elements, block_id, fresh) ==
    LET base == [class |-> "ActionsBlock"]
                @@ Block_init(BlockType("actions"), block_id, fresh)
    IN  IF IsElement(elements)
        THEN Ok([elements |-> List(<<elements>>)] @@ base)
        ELSE IF elements.class = "list"
                /\ \A i \in 1..Len(elements.items) : IsElement(elements.items[i])
        THEN Ok([elements |-> elements] @@ base)
        ELSE Ok(base)

ActionsBlock_resolve(self) ==
    IF "elements" \notin DOMAIN self THEN Raise("AttributeError")
    ELSE Put(Ok(Block_attributes(self)), "elements",
             Comprehension(self.elements))

\* the constructor with the count check off by one
ContextBlock_eleven(elements, block_id, fresh) ==
    IF elements.class # "list" THEN Raise("TypeError")
    ELSE LET n == Len(elements.items)
             stop == {i \in 1..n :
                        \/ "type" \notin DOMAIN elements.items[i]
                        \/ /\ elements.items[i].type # ElementType("text")
                           /\ elements.items[i].type # ElementType("image")}
         IN  IF stop # {} THEN Raise("InvalidUsageError")
             ELSE IF n > 11 THEN Raise("InvalidUsageError")
             ELSE Ok([class |-> "ContextBlock", elements |-> elements]
                     @@ Block_init(BlockType("context"), block_id, fresh))

\* the loop over elements: the first element that is not a Text or an Image
\* ends it (reading .type of an object without one raises AttributeError)
ContextBlock(elements, block_id, fresh) ==
    IF elements.class # "list" THEN Raise("TypeError")
    ELSE LET n == Len(elements.items)
             stop == {i \in 1..n :
                        \/ "type" \notin DOMAIN elements.items[i]
                        \/ /\ elements.items[i].type # ElementType("text")
                           /\ elements.items[i].type # ElementType("image")}
             first == CHOOSE i \in stop : \A j \in stop : i <= j
         IN  IF stop # {}
             THEN IF "type" \notin DOMAIN elements.items[first]
                  THEN Raise("AttributeError")
                  ELSE Raise("InvalidUsageError")
             ELSE IF n > 10 THEN Raise("InvalidUsageError")
             ELSE Ok([class |-> "ContextBlock", elements |-> elements]
                     @@ Block_init(BlockType("context"), block_id, fresh))

ContextBlock_resolve(self) ==
    Put(Ok(Block_attributes(self)), "elements",
        Comprehension(self.elements))

FileBlock(external_id, source, block_id, fresh) ==
    Ok([class |-> "FileBlock", external_id |-> external_id, source |-> source]
       @@ Block_init(BlockType("file"), block_id, fresh))

FileBlock_resolve(self) ==
    Put(Put(Ok(Block_attributes(self)),
        "external_id", Ok(self.external_id)),
        "source", Ok(self.source))

HeaderBlock(text, block_id, fresh) ==
    Ok([class |-> "HeaderBlock",
        text |-> IF text.class = "Text" THEN text
                 ELSE Text(text, PLAINTEXT, False, False)]
       @@ Block_init(BlockType("header"), block_id, fresh))

HeaderBlock_resolve(self) ==
    Put(Ok(Block_attributes(self)), "text", resolve(self.text))

InputBlock(label, element, dispatch_action, hint, optional, block_id, fresh) ==
    LET l == to_text(label, TRUE, Num(2000))
        h == to_text(hint, TRUE, Num(2000))
    IN  FirstError(<<l, h>>,
            [class |-> "InputBlock", label |-> l.value, element |-> element,
             dispatch_action |-> dispatch_action, hint |-> h.value,
             optional |-> optional]
            @@ Block_init(BlockType("input"), block_id, fresh))

InputBlock_resolve(self) ==
    LET h1 == Put(Ok(Block_attributes(self)), "label",
                  resolve(self.label))
        h2 == Put(h1, "element", resolve(self.element))
        h3 == Put(h2, "dispatch_action", Ok(self.dispatch_action))
        h4 == Put(h3, "optional", Ok(self.optional))
    IN  PutIf(h4, Truthy(self.hint), "hint", resolve(self.hint))

IsBlock(x) ==
    x.class \in {"SectionBlock", "DividerBlock", "ImageBlock", "ActionsBlock",
                 "ContextBlock", "FileBlock", "HeaderBlock", "InputBlock"}


-----------------------------------------------------------------------------
(* view/base_view.py, view/home_view.py, view/modal_view.py *)

SlackViewType(v) == [class |-> "SlackViewType", value |-> v]

\* json.dumps of a mapping with at most one key, both key and value strings
dumps(d) ==
    IF DOMAIN d.items = {} THEN Str("{}")
    ELSE LET k == CHOOSE k \in DOMAIN d.items : TRUE
         IN  Str("{\"" \o k \o "\": \"" \o d.items[k].v \o "\"}")

BaseSlackView_init(view_type, blocks_, private_metadata, callback_id, external_id) ==
    [blocks |-> IF blocks_ = None THEN List(<<>>) ELSE blocks_,
     type |-> view_type,
     external_id |-> external_id,
     private_metadata |-> private_metadata,
     callback_id |-> callback_id]

\* _attributes resolving the first block only
BaseSlackView_attributes_first(self) ==
    LET first == List(IF self.blocks.items = <<>> THEN <<>>
                      ELSE <<Head(self.blocks.items)>>)
        a1 == Put(Ok(Dict([type |-> Str(self.type.value)])), "blocks",
                  Comprehension(first))
        a2 == PutIf(a1, Truthy(self.external_id), "external_id",
                    Ok(self.external_id))
        a3 == PutIf(a2, Truthy(self.callback_id), "callback_id",
                    Ok(self.callback_id))
    IN  PutIf(a3, Truthy(self.private_metadata), "private_metadata",
              Ok(dumps(self.private_metadata)))

BaseSlackView_attributes(self) ==
    LET a1 == Put(Ok(Dict([type |-> Str(self.type.value)])), "blocks",
                  Comprehension(self.blocks))
        a2 == PutIf(a1, Truthy(self.external_id), "external_id",
                    Ok(self.external_id))
        a3 == PutIf(a2, Truthy(self.callback_id), "callback_id",
                    Ok(self.callback_id))
    IN  PutIf(a3, Truthy(self.private_metadata), "private_metadata",
              Ok(dumps(self.private_metadata)))

HomeSlackView(blocks_, private_metadata, callback_id, external_id) ==
    Ok([class |-> "HomeSlackView"]
       @@ BaseSlackView_init(SlackViewType("home"), blocks_, private_metadata,
                             callback_id, external_id))

HomeSlackView_resolve(self) == BaseSlackView_attributes(self)

ModalSlackView(title, close, submit, blocks_, private_metadata, clear_on_close, notify_on_close, callback_id, external_id) ==
    LET t == to_text(title, TRUE, Num(24))
        c == to_text(close, TRUE, Num(24))
        s == to_text(submit, TRUE, Num(24))
    IN  FirstError(<<t, c, s>>,
            [class |-> "ModalSlackView", title |-> t.value, close |-> c.value,
             submit |-> s.value, clear_on_close |-> clear_on_close,
             notify_on_close |-> notify_on_close]
            @@ BaseSlackView_init(SlackViewType("modal"), blocks_,
                                  private_metadata, callback_id, external_id))

\* any(isinstance(x, (int, InputBlock)) for x in self.blocks); bool is a
\* subclass of int
HasInput(bs) ==
    \E i \in 1..Len(bs.items) :
        bs.items[i].class \in {"int", "bool", "InputBlock"}

ModalSlackView_resolve(self) ==
    LET v1 == Put(BaseSlackView_attributes(self), "title",
                  resolve(self.title))
        v2 == IF v1.status # "ok" THEN v1
              ELSE IF Truthy(self.submit)
              THEN Put(v1, "submit", resolve(self.submit))
              ELSE IF HasInput(self.blocks) THEN Raise("InvalidUsageError")
              ELSE v1
        v3 == PutIf(v2, Truthy(self.close), "close",
                    resolve(self.close))
        v4 == PutIf(v3, Truthy(self.clear_on_close), "clear_on_close",
                    Ok(self.clear_on_close))
    IN  PutIf(v4, Truthy(self.notify_on_close), "notify_on_close",
              Ok(self.notify_on_close))

-----------------------------------------------------------------------------
(* view/modal_response.py *)

ModalResponseAction(v) == [class |-> "ModalResponseAction", value |-> v]

BaseModalResponse_attributes(self) ==
    Dict([response_action |-> Str(self.response_action.value)])

EmptyModalResponse ==
    Ok([class |-> "EmptyModalResponse",
        response_action |-> ModalResponseAction("errors")])

EmptyModalResponse_resolve(self) == Ok(EmptyDict)

CloseModalResponse ==
    Ok([class |-> "CloseModalResponse",
        response_action |-> ModalResponseAction("clear")])

CloseModalResponse_resolve(self) == Ok(BaseModalResponse_attributes(self))

ErrorModalResponse(errors) ==
    Ok([class |-> "ErrorModalResponse",
        response_action |-> ModalResponseAction("errors"),
        errors |-> errors])

ErrorModalResponse_resolve(self) ==
    Put(Ok(BaseModalResponse_attributes(self)), "errors", Ok(self.errors))

UpdateModalResponse(modal) ==
    Ok([class |-> "UpdateModalResponse",
        response_action |-> ModalResponseAction("update"),
        modal |-> modal])

UpdateModalResponse_resolve(self) ==
    Put(Ok(BaseModalResponse_attributes(self)), "view",
        resolve(self.modal))

\* x._resolve(): the method of x's class; an object of any other class (None,
\* a str, an int) has no such attribute
resolve(x) ==
    CASE x.class = "Text" -> Text_resolve(x)
      [] x.class = "Image" -> Image_resolve(x)
      [] x.class = "Confirm" -> Confirm_resolve(x)
      [] x.class = "Button" -> Button_resolve(x)
      [] x.class = "DispatchActionConfig" -> DispatchActionConfig_resolve(x)
      [] x.class = "TextInput" -> TextInput_resolve(x)
      [] x.class = "OptionObject" -> OptionObject_resolve(x)
      [] x.class = "OptionGroup" -> OptionGroup_resolve(x)
      [] x.class = "StaticSelect" -> StaticSelect_resolve(x)
      [] x.class = "CheckboxSelector" -> CheckboxSelector_resolve(x)
      [] x.class = "MultiUsersSelect" -> MultiUsersSelect_resolve(x)
      [] x.class = "TimePicker" -> TimePicker_resolve(x)
      [] x.class = "DatePicker" -> DatePicker_resolve(x)
      [] x.class = "SectionBlock" -> SectionBlock_resolve(x)
      [] x.class = "DividerBlock" -> DividerBlock_resolve(x)
      [] x.class = "ImageBlock" -> ImageBlock_resolve(x)
      [] x.class = "ActionsBlock" -> ActionsBlock_resolve(x)
      [] x.class = "ContextBlock" -> ContextBlock_resolve(x)
      [] x.class = "FileBlock" -> FileBlock_resolve(x)
      [] x.class = "HeaderBlock" -> HeaderBlock_resolve(x)
      [] x.class = "InputBlock" -> InputBlock_resolve(x)
      [] x.class = "HomeSlackView" -> HomeSlackView_resolve(x)
      [] x.class = "ModalSlackView" -> ModalSlackView_resolve(x)
      [] x.class = "EmptyModalResponse" -> EmptyModalResponse_resolve(x)
      [] x.class = "CloseModalResponse" -> CloseModalResponse_resolve(x)
      [] x.class = "ErrorModalResponse" -> ErrorModalResponse_resolve(x)
      [] x.class = "UpdateModalResponse" -> UpdateModalResponse_resolve(x)
      [] OTHER -> Raise("AttributeError")

-----------------------------------------------------------------------------
(* Bounds and the arguments the caller draws from *)

MaxLen == 3         \* longest free-form string handed to Text and to_text
MaxElements == 11   \* longest element list handed to ContextBlock
MaxBlocks == 2      \* longest block list the caller builds for a view
MaxUuid == 2        \* uuid4() calls in one run

S(n) == Str(Rep("a", n))

MdText == Text(Str("Hi"), MARKDOWN, False, False)
PlainText == Text(Str("Hi"), PLAINTEXT, True, False)

\* arguments for a Text-valued field whose documented limit is L; the narrow
\* set is used where whole views are built
Texts(wide, L) ==
    IF wide THEN {None, Str("Hi"), S(L), S(L + 1), MdText, PlainText}
    ELSE {Str("Hi")}

BlockIds(wide) == IF wide THEN {None, Str(""), Str("B1")} ELSE {None, Str("B1")}

aConfirm == Confirm(Str("Title"), Str("Sure?"), Str("Yes"), Str("No")).value
Confirms(wide) == IF wide THEN {None, aConfirm} ELSE {None}

anOption == OptionObject(Str("One"), Str("1"), None, None).value
anOptionGroup == OptionGroup(Str("Group"), List(<<anOption>>)).value
anImage == Image(Str("http://img"), Str("alt")).value
aButton == Button(Str("Go"), Str("go"), None, None, None, None).value
aTextInput == TextInput(Str("in"), None, None, False, None, None, None).value

-----------------------------------------------------------------------------
(* The caller: one action per constructor or method called *)

NoCall == [status |-> "ok", value |-> None, op |-> "none", args |-> [self |-> None]]

Init ==
    /\ obj = None
    /\ blocks = <<>>
    /\ result = NoCall
    /\ prev = None
    /\ uuid = 0

\* What a call of constructor (or static method) op with arguments args
\* leaves in result when it ends as out
Outcome(op, args, out) ==
    [status |-> out.status, value |-> out.value, op |-> op, args |-> args]

\* The rest of a call that drew n tokens from uuid4(): the caller holds the
\* object returned, or nothing when the call raised
Kept(n) ==
    /\ uuid + n <= MaxUuid
    /\ obj' = result'.value
    /\ prev' = None
    /\ uuid' = uuid + n
    /\ UNCHANGED blocks

\* Block.__init__ calls uuid4() exactly when block_id is falsy
Tokens(block_id) == IF Truthy(block_id) THEN 0 ELSE 1

NewText ==
    \E n \in 0..MaxLen, type_ \in {MARKDOWN, PLAINTEXT},
       emoji \in {False, True}, verbatim \in {False, True} :
        /\ result' = Outcome("Text",
                             [text |-> S(n), type_ |-> type_, emoji |-> emoji,
                              verbatim |-> verbatim],
                             Ok(Text(S(n), type_, emoji, verbatim)))
        /\ Kept(0)

ToTextInputs ==
    {None} \cup {S(n) : n \in 0..MaxLen}
    \cup {Text(S(n), t, False, False) : n \in 0..MaxLen, t \in {MARKDOWN, PLAINTEXT}}

CallToText ==
    \E text \in ToTextInputs, force_plaintext \in BOOLEAN,
       max_length \in {None} \cup {Num(n) : n \in 0..MaxLen} :
        /\ result' = Outcome("to_text",
                             [text |-> text, force_plaintext |-> force_plaintext,
                              max_length |-> max_length],
                             to_text(text, force_plaintext, max_length))
        /\ Kept(0)

NewImage ==
    \E alt_text \in {Str(""), Str("alt")} :
        /\ result' = Outcome("Image", [image_url |-> Str("http://img"), alt_text |-> alt_text],
                             Image(Str("http://img"), alt_text))
        /\ Kept(0)

NewConfirm ==
    \E title \in {Str("Hi"), S(100), S(101)},
       text \in {Str("Hi"), S(300), S(301)},
       confirm \in {S(30), S(31)},
       deny \in {S(30), S(31)} :
        /\ result' = Outcome("Confirm",
                             [text |-> text, title |-> title, confirm |-> confirm, deny |-> deny],
                             Confirm(title, text, confirm, deny))
        /\ Kept(0)

NewButton(wide) ==
    \E text \in Texts(wide, 75),
       url \in IF wide THEN {None, Str("http://x")} ELSE {None},
       value \in IF wide THEN {None, Str("x")} ELSE {None},
       style \in IF wide THEN {None, Str("primary")} ELSE {None},
       confirm \in Confirms(wide) :
        /\ result' = Outcome("Button",
                             [value |-> value, text |-> text, confirm |-> confirm,
                              action_id |-> Str("go"), url |-> url, style |-> style],
                             Button(text, Str("go"), url, value, style, confirm))
        /\ Kept(0)

NewTextInput ==
    \E placeholder \in Texts(TRUE, 150), initial_value \in {None},
       multiline \in {False, True}, min_length \in {None, Num(0), Num(1)},
       max_length \in {None},
       dispatch_config \in {None, DispatchActionConfig(True, False).value} :
        /\ result' = Outcome("TextInput",
                             [max_length |-> max_length, action_id |-> Str("in"),
                              placeholder |-> placeholder, initial_value |-> initial_value,
                              multiline |-> multiline, min_length |-> min_length,
                              dispatch_config |-> dispatch_config],
                             TextInput(Str("in"), placeholder, initial_value, multiline,
                                       min_length, max_length, dispatch_config))
        /\ Kept(0)

NewOptionObject ==
    \E text \in Texts(TRUE, 75), description \in {None, Str("d"), S(76)},
       url \in {None, Str("x")} :
        /\ result' = Outcome("OptionObject",
                             [value |-> Str("1"), text |-> text, url |-> url,
                              description |-> description],
                             OptionObject(text, Str("1"), description, url))
        /\ Kept(0)

NewOptionGroup ==
    \E label \in Texts(TRUE, 75),
       options \in {List(<<>>), List(<<anOption>>)} :
        /\ result' = Outcome("OptionGroup", [label |-> label, options |-> options],
                             OptionGroup(label, options))
        /\ Kept(0)

NewStaticSelect ==
    \E placeholder \in {Str("Hi"), S(151)},
       options \in {None, List(<<>>), List(<<anOption>>)},
       option_group \in {None, anOptionGroup},
       initial_option \in {None, Str("1"), anOption},
       confirm \in Confirms(TRUE) :
        /\ result' = Outcome("StaticSelect",
                             [confirm |-> confirm, action_id |-> Str("sel"),
                              placeholder |-> placeholder, options |-> options,
                              option_group |-> option_group, initial_option |-> initial_option],
                             StaticSelect(Str("sel"), placeholder, options, option_group,
                                          initial_option, confirm))
        /\ Kept(0)

NewCheckboxSelector ==
    \E options \in {None, List(<<anOption>>)},
       initial_options \in {None, List(<<anOption>>)},
       confirm \in Confirms(TRUE) :
        /\ result' = Outcome("CheckboxSelector",
                             [confirm |-> confirm, action_id |-> Str("chk"),
                              options |-> options, initial_options |-> initial_options],
                             CheckboxSelector(Str("chk"), options, initial_options, confirm))
        /\ Kept(0)

NewMultiUsersSelect ==
    \E placeholder \in Texts(TRUE, 150),
       initial_users \in {None, List(<<Str("U1")>>)},
       max_selected_items \in {None, Num(2)},
       confirm \in Confirms(TRUE) :
        /\ result' = Outcome("MultiUsersSelect",
                             [confirm |-> confirm, action_id |-> Str("usr"),
                              placeholder |-> placeholder,
                              initial_users |-> initial_users, max_selected_items |-> max_selected_items],
                             MultiUsersSelect(Str("usr"), placeholder, initial_users,
                                              max_selected_items, confirm))
        /\ Kept(0)

NewTimePicker ==
    \E initial_time \in {None, Time(9, 5)},
       placeholder \in Texts(TRUE, 150) \cup {S(75), S(76)},
       confirm \in Confirms(TRUE) :
        /\ result' = Outcome("TimePicker",
                             [confirm |-> confirm, action_id |-> Str("tp"),
                              placeholder |-> placeholder, initial_time |-> initial_time],
                             TimePicker(Str("tp"), initial_time, placeholder, confirm))
        /\ Kept(0)

NewDatePicker ==
    \E initial_date \in {None, Date(2021, 3, 7)},
       placeholder \in Texts(TRUE, 150) \cup {S(75), S(76)},
       confirm \in Confirms(TRUE) :
        /\ result' = Outcome("DatePicker",
                             [confirm |-> confirm, action_id |-> Str("dp"),
                              placeholder |-> placeholder, initial_date |-> initial_date],
                             DatePicker(Str("dp"), initial_date, placeholder, confirm))
        /\ Kept(0)


aTimePicker == TimePicker(Str("tp"), None, None, None).value

SectionFields ==
    {None, List(<<>>), List(<<Str("f1"), Str(""), MdText>>),
     List(<<Str("f1"), S(2000)>>), List(<<Str("f1"), S(2001)>>)}

NewSectionBlock ==
    \E text \in Texts(TRUE, 2000) \ {PlainText}, block_id \in BlockIds(FALSE),
       fields \in SectionFields, accessory \in {None, aButton} :
        /\ result' = Outcome("SectionBlock",
                             [text |-> text, block_id |-> block_id, fields |-> fields,
                              accessory |-> accessory],
                             SectionBlock(text, block_id, fields, accessory, uuid4(uuid)))
        /\ Kept(Tokens(block_id))

NewDividerBlock(wide) ==
    \E block_id \in BlockIds(wide) :
        /\ result' = Outcome("DividerBlock", [block_id |-> block_id],
                             DividerBlock(block_id, uuid4(uuid)))
        /\ Kept(Tokens(block_id))

ImageTitles ==
    {None, Str(""), Str("Hi"), MdText, PlainText,
     Text(Str("Hi"), MARKDOWN, False, True),
     Text(Str("Hi"), PLAINTEXT, False, False)}

NewImageBlock ==
    \E title \in ImageTitles, block_id \in BlockIds(TRUE) :
        /\ result' = Outcome("ImageBlock",
                             [image_url |-> Str("http://img"), alt_text |-> Str(""),
                              title |-> title, block_id |-> block_id],
                             ImageBlock(Str("http://img"), Str(""), title, block_id, uuid4(uuid)))
        /\ Kept(Tokens(block_id))

ActionsElements(wide) ==
    IF wide
    THEN {None, aButton, List(<<>>), List(<<aButton>>),
          List(<<aButton, aTextInput>>), List(<<aButton, anOption>>),
          List(<<aTimePicker>>)}
    ELSE {None, List(<<aButton>>)}

NewActionsBlock(wide) ==
    \E elements \in ActionsElements(wide),
       block_id \in IF wide THEN BlockIds(TRUE) ELSE {Str("A1")} :
        /\ result' = Outcome("ActionsBlock", [block_id |-> block_id, elements |-> elements],
                             ActionsBlock(elements, block_id, uuid4(uuid)))
        /\ Kept(Tokens(block_id))

\* the i-th element of a context list: Texts and Images in turn, all different
ContextElement(i) ==
    IF i % 2 = 1 THEN Text(Str(ToString(i)), MARKDOWN, False, False)
    ELSE Image(Str("http://img"), Str(ToString(i))).value

\* n Text/Image elements, the p-th replaced by x when p is in 1..n
ContextList(n, p, x) ==
    List([i \in 1..n |-> IF i = p THEN x ELSE ContextElement(i)])

ContextLists(wide) ==
    IF wide
    THEN {None}
         \cup {ContextList(n, 0, None) : n \in 0..MaxElements}
         \cup {ContextList(n, p, x) : n \in {1, 10, MaxElements}, p \in {1, 10},
                                      x \in {aButton, anOption}}
    ELSE {ContextList(1, 0, None), ContextList(1, 1, aButton)}

NewContextBlock(wide) ==
    \E elements \in ContextLists(wide),
       block_id \in IF wide THEN BlockIds(TRUE) ELSE {None} :
        /\ result' = Outcome("ContextBlock", [block_id |-> block_id, elements |-> elements],
                             ContextBlock(elements, block_id, uuid4(uuid)))
        /\ Kept(Tokens(block_id))

NewFileBlock ==
    \E block_id \in BlockIds(TRUE) :
        /\ result' = Outcome("FileBlock",
                             [block_id |-> block_id, external_id |-> Str("F1"),
                              source |-> Str("remote")],
                             FileBlock(Str("F1"), Str("remote"), block_id, uuid4(uuid)))
        /\ Kept(Tokens(block_id))

NewHeaderBlock ==
    \E text \in {Str("Title"), MdText, PlainText,
                 Text(Str("Hi"), PLAINTEXT, False, False)},
       block_id \in BlockIds(TRUE) :
        /\ result' = Outcome("HeaderBlock", [text |-> text, block_id |-> block_id],
                             HeaderBlock(text, block_id, uuid4(uuid)))
        /\ Kept(Tokens(block_id))

NewInputBlock(wide) ==
    \E label \in Texts(wide, 2000),
       element \in IF wide THEN {aTextInput, aTimePicker} ELSE {aTextInput},
       hint \in IF wide THEN {None, Str("h"), S(2001), MdText} ELSE {None},
       block_id \in BlockIds(FALSE) :
        /\ result' = Outcome("InputBlock",
                             [label |-> label, block_id |-> block_id, element |-> element,
                              dispatch_action |-> False, hint |-> hint, optional |-> False],
                             InputBlock(label, element, False, hint, False, block_id, uuid4(uuid)))
        /\ Kept(Tokens(block_id))

\* blocks.append(obj): the caller collects the blocks of a view
Attach ==
    /\ IsBlock(obj)
    /\ Len(blocks) < MaxBlocks
    /\ blocks' = Append(blocks, obj)
    /\ result' = [status |-> "ok", value |-> None,
                  op |-> "append", args |-> [self |-> obj]]
    /\ prev' = None
    /\ UNCHANGED <<obj, uuid>>

\* the blocks argument of a view: omitted, or a list of the blocks collected
BlockLists == {None, List(blocks)}

NewHomeSlackView ==
    \E blocks_ \in BlockLists,
       private_metadata \in {None, Dict([k |-> Str("v")])},
       external_id \in {None, Str("x")} :
        /\ result' = Outcome("HomeSlackView",
                             [blocks |-> blocks_, external_id |-> external_id,
                              private_metadata |-> private_metadata, callback_id |-> None],
                             HomeSlackView(blocks_, private_metadata, None, external_id))
        /\ Kept(0)

ModalTitles(wide) ==
    IF wide THEN {Str(""), Str("T"), S(24), S(25), MdText} ELSE {Str("T")}
ModalSubmits(wide) ==
    IF wide THEN {None, Str("Go"), S(25), PlainText} ELSE {None, Str("Go")}

NewModalSlackView(wide) ==
    \E title \in ModalTitles(wide), submit \in ModalSubmits(wide),
       close \in IF wide THEN {None, Str("Back")} ELSE {None},
       blocks_ \in BlockLists,
       clear_on_close \in {None} :
        /\ result' = Outcome("ModalSlackView",
                             [blocks |-> blocks_, title |-> title, external_id |-> None,
                              private_metadata |-> None, callback_id |-> None,
                              close |-> close, submit |-> submit,
                              clear_on_close |-> clear_on_close, notify_on_close |-> None],
                             ModalSlackView(title, close, submit, blocks_, None, clear_on_close,
                                            None, None, None))
        /\ Kept(0)

NewEmptyModalResponse ==
    /\ result' = Outcome("EmptyModalResponse", [self |-> None], EmptyModalResponse)
    /\ Kept(0)

NewCloseModalResponse ==
    /\ result' = Outcome("CloseModalResponse", [self |-> None], CloseModalResponse)
    /\ Kept(0)

NewErrorModalResponse ==
    \E errors \in {EmptyDict, Dict([B1 |-> Str("bad value")])} :
        /\ result' = Outcome("ErrorModalResponse", [errors |-> errors],
                             ErrorModalResponse(errors))
        /\ Kept(0)

NewUpdateModalResponse ==
    /\ obj.class = "ModalSlackView"
    /\ result' = Outcome("UpdateModalResponse", [modal |-> obj], UpdateModalResponse(obj))
    /\ Kept(0)

\* obj._resolve()
Resolve ==
    /\ obj # None
    /\ LET out == resolve(obj)
       IN  result' = [status |-> out.status, value |-> out.value,
                      op |-> "_resolve", args |-> [self |-> obj]]
    /\ prev' = IF result.op = "_resolve" THEN result ELSE None
    /\ UNCHANGED <<obj, blocks, uuid>>

\* whole views: blocks, the caller's block list, views and modal responses
Next ==
    \/ NewButton(FALSE)
    \/ NewDividerBlock(FALSE)
    \/ NewActionsBlock(FALSE)
    \/ NewContextBlock(FALSE)
    \/ NewInputBlock(FALSE)
    \/ Attach
    \/ NewHomeSlackView
    \/ NewModalSlackView(FALSE)
    \/ NewEmptyModalResponse
    \/ NewCloseModalResponse
    \/ NewErrorModalResponse
    \/ NewUpdateModalResponse
    \/ Resolve

Spec == Init /\ [][Next]_vars

\* single elements and Text.to_text with the full range of arguments
NextElements ==
    \/ NewText
    \/ CallToText
    \/ NewImage
    \/ NewConfirm
    \/ NewButton(TRUE)
    \/ NewTextInput
    \/ NewOptionObject
    \/ NewOptionGroup
    \/ NewStaticSelect
    \/ NewCheckboxSelector
    \/ NewMultiUsersSelect
    \/ NewTimePicker
    \/ NewDatePicker
    \/ Resolve

SpecElements == Init /\ [][NextElements]_vars

\* single blocks and modal views with the full range of arguments
NextBlocks ==
    \/ NewSectionBlock
    \/ NewDividerBlock(TRUE)
    \/ NewImageBlock
    \/ NewActionsBlock(TRUE)
    \/ NewContextBlock(TRUE)
    \/ NewFileBlock
    \/ NewHeaderBlock
    \/ NewInputBlock(TRUE)
    \/ NewModalSlackView(TRUE)
    \/ Resolve

SpecBlocks == Init /\ [][NextBlocks]_vars

\* single elements and single blocks side by side
NextNodes ==
    \/ NewText
    \/ NewImage
    \/ NewConfirm
    \/ NewButton(TRUE)
    \/ NewTextInput
    \/ NewStaticSelect
    \/ NewCheckboxSelector
    \/ NewMultiUsersSelect
    \/ NewTimePicker
    \/ NewDatePicker
    \/ NewSectionBlock
    \/ NewDividerBlock(TRUE)
    \/ NewImageBlock
    \/ NewActionsBlock(TRUE)
    \/ NewContextBlock(TRUE)
    \/ NewFileBlock
    \/ NewHeaderBlock
    \/ NewInputBlock(TRUE)
    \/ Resolve

SpecNodes == Init /\ [][NextNodes]_vars

-----------------------------------------------------------------------------
(* Properties *)

BlockOps ==
    {"SectionBlock", "DividerBlock", "ImageBlock", "ActionsBlock",
     "ContextBlock", "FileBlock", "HeaderBlock", "InputBlock"}

IsView(x) == x.class \in {"HomeSlackView", "ModalSlackView"}

\* the last call was obj._resolve()
Resolved == result.op = "_resolve"

C2_ToTextLengthRule ==
    (/\ result.op = "to_text"
     /\ Truthy(result.args.text)
     /\ result.args.max_length # None
     /\ result.args.max_length.v >= 1) =>
        LET text == result.args.text
            content == IF text.class = "str" THEN text.v ELSE text.text.v
            L == result.args.max_length.v
        IN  /\ (result.status = "InvalidUsageError") <=> (Len(content) > L)
            /\ Len(content) <= L =>
                 /\ result.status = "ok"
                 /\ result.value.class = "Text"

\* C3: constructing a ModalSlackView without submit succeeds; resolving one
\* raises InvalidUsageError exactly when submit is absent and an InputBlock is
\* among its blocks, and otherwise returns the mapping, with the submit key
\* exactly when submit was supplied
C3_SubmitRule ==
    /\ (result.op = "ModalSlackView" /\ result.args.submit = None) =>
           result.status = "ok"
    /\ (Resolved /\ obj.class = "ModalSlackView") =>
           LET input == \E i \in 1..Len(obj.blocks.items) :
                            obj.blocks.items[i].class = "InputBlock"
               missing == ~Truthy(obj.submit) /\ input
           IN  /\ (result.status = "InvalidUsageError") <=> missing
               /\ ~missing =>
                    /\ result.status = "ok"
                    /\ ("submit" \in DOMAIN result.value.items)
                           <=> Truthy(obj.submit)

\* C4: ContextBlock called with a list of Elements returns a block exactly
\* when every element is a Text or an Image and there are at most ten; it
\* raises InvalidUsageError otherwise, and the block holds the elements
\* supplied, in order
C4_ContextBlockRule ==
    (/\ result.op = "ContextBlock"
     /\ result.args.elements.class = "list"
     /\ \A i \in 1..Len(result.args.elements.items) :
            IsElement(result.args.elements.items[i])) =>
        LET items == result.args.elements.items
            valid == /\ \A i \in 1..Len(items) : items[i].class \in {"Text", "Image"}
                     /\ Len(items) <= 10
        IN  /\ (result.status = "ok") <=> valid
            /\ ~valid => result.status = "InvalidUsageError"
            /\ valid =>
                 /\ obj.class = "ContextBlock"
                 /\ obj.elements.items = items

\* a ContextBlock built from exactly ten Text and Image elements
C4_Witness ==
    /\ result.op = "ContextBlock"
    /\ result.args.elements.class = "list"
    /\ Len(result.args.elements.items) = 10
    /\ result.status = "ok"
    /\ Len(obj.elements.items) = 10

\* C5: StaticSelect raises InvalidUsageError when both options and
\* option_group are passed and when neither is (an empty list is not passed);
\* with exactly one of them and a placeholder within its limit it returns the
\* element, whose resolved mapping has exactly one of the two keys
C5_ExactlyOneOfOptions ==
    /\ result.op = "StaticSelect" =>
           LET one == Truthy(result.args.options)
                          # Truthy(result.args.option_group)
           IN  /\ ~one => result.status = "InvalidUsageError"
               /\ (one /\ result.args.placeholder = Str("Hi")) =>
                    /\ result.status = "ok"
                    /\ obj.options = result.args.options
                    /\ obj.option_group = result.args.option_group
               /\ result.status = "ok" => one
    /\ (Resolved /\ obj.class = "StaticSelect" /\ result.status = "ok") =>
           ("options" \in DOMAIN result.value.items)
               # ("option_group" \in DOMAIN result.value.items)

\* a StaticSelect built from an option group alone and resolved
C5_Witness ==
    /\ Resolved
    /\ obj.class = "StaticSelect"
    /\ obj.options = None
    /\ Truthy(obj.option_group)
    /\ result.status = "ok"
    /\ "option_group" \in DOMAIN result.value.items

\* C6: a block constructed with a non-empty block_id keeps it; one constructed
\* without gets a token that no block collected before has; and the block_id in
\* the resolved mapping of a block, alone or inside a view, is the block's own
C6_BlockIdTokens ==
    /\ (result.op \in BlockOps /\ result.status = "ok") =>
           IF Truthy(result.args.block_id)
           THEN obj.block_id = result.args.block_id
           ELSE \A i \in 1..Len(blocks) : blocks[i].block_id # obj.block_id
    /\ (Resolved /\ result.status = "ok" /\ IsBlock(obj)) =>
           result.value.items["block_id"] = obj.block_id
    /\ (Resolved /\ result.status = "ok" /\ IsView(obj)) =>
           /\ Len(result.value.items["blocks"].items) = Len(obj.blocks.items)
           /\ \A i \in 1..Len(obj.blocks.items) :
                  result.value.items["blocks"].items[i].items["block_id"]
                      = obj.blocks.items[i].block_id

\* a second block constructed without block_id while the caller's list already
\* holds one with a generated token
C6_Witness ==
    /\ result.op = "DividerBlock"
    /\ result.args.block_id = None
    /\ result.status = "ok"
    /\ Len(blocks) >= 1
    /\ blocks[1].block_id = uuid4(0)
    /\ obj.block_id = uuid4(1)

\* the Text-valued arguments of each constructor and their documented limits
DocumentedLimits(op) ==
    CASE op = "SectionBlock" -> [text |-> 2000]
      [] op = "InputBlock" -> [label |-> 2000, hint |-> 2000]
      [] op \in {"StaticSelect", "MultiUsersSelect", "TextInput", "TimePicker",
                 "DatePicker"} -> [placeholder |-> 150]
      [] op = "Button" -> [text |-> 75]
      [] op = "OptionObject" -> [text |-> 75]
      [] op = "OptionGroup" -> [label |-> 75]
      [] op = "Confirm" -> [text |-> 300, title |-> 100, confirm |-> 30, deny |-> 30]
      [] op = "ModalSlackView" -> [title |-> 24]
      [] OTHER -> [f \in {} |-> 0]

\* C7: a call whose Text-valued arguments are raw strings (or absent) and
\* whose other arguments are valid raises InvalidUsageError when one of the
\* strings is longer than its documented limit, and succeeds when each is
\* within it, a string of exactly the limit included
C7_DocumentedLimits ==
    LET limit == DocumentedLimits(result.op)
        strs == {f \in DOMAIN limit : result.args[f].class = "str"}
    IN  (/\ strs # {}
         /\ \A f \in DOMAIN limit : result.args[f].class \in {"str", "NoneType"}
         /\ result.op = "StaticSelect" =>
                Truthy(result.args.options) # Truthy(result.args.option_group)
         /\ result.op = "SectionBlock" => ~Truthy(result.args.fields)
         /\ result.op = "OptionObject" => result.args.description = None
         /\ result.op = "ModalSlackView" => result.args.submit \in {None, Str("Go")}) =>
            IF \E f \in strs : Len(result.args[f].v) > limit[f]
            THEN result.status = "InvalidUsageError"
            ELSE result.status = "ok"

\* a value made of strings, booleans, numbers, lists and mappings only
RECURSIVE Plain(_)
Plain(v) ==
    CASE v.class \in {"str", "bool", "int"} -> TRUE
      [] v.class = "list" -> \A i \in 1..Len(v.items) : Plain(v.items[i])
      [] v.class = "dict" -> \A k \in DOMAIN v.items : Plain(v.items[k])
      [] OTHER -> FALSE

\* C8: what _resolve returns is a plain nested mapping, and for an element
\* holding a Confirm its confirm key holds the Confirm's resolved mapping
C8_PlainNestedMapping ==
    (Resolved /\ result.status = "ok") =>
        /\ Plain(result.value)
        /\ (/\ obj.class \in {"Button", "StaticSelect", "CheckboxSelector",
                              "MultiUsersSelect", "TimePicker", "DatePicker"}
            /\ Truthy(obj.confirm)) =>
               /\ "confirm" \in DOMAIN result.value.items
               /\ result.value.items["confirm"] = Confirm_resolve(obj.confirm).value

\* C9: a Text resolves to type and text, plus verbatim (the flag's value) when
\* it is MARKDOWN, plus emoji: true when it is PLAIN and emoji was enabled, and
\* to no other key
C9_TextResolveKeys ==
    (Resolved /\ obj.class = "Text") =>
        /\ result.status = "ok"
        /\ LET m == result.value.items
           IN  /\ m["type"] = Str(obj.text_type.value)
               /\ m["text"] = obj.text
               /\ IF obj.text_type = MARKDOWN
                  THEN /\ DOMAIN m = {"type", "text", "verbatim"}
                       /\ m["verbatim"] = obj.verbatim
                  ELSE IF obj.emoji = True
                  THEN /\ DOMAIN m = {"type", "text", "emoji"}
                       /\ m["emoji"] = True
                  ELSE DOMAIN m = {"type", "text"}

\* the Text mapping m is plain text
PlainTextMapping(m) ==
    /\ m.items["type"] = Str("plain_text")
    /\ "verbatim" \notin DOMAIN m.items

\* C10: HeaderBlock text, InputBlock label and hint and ModalSlackView title
\* accept a string, a PLAIN Text and a MARKDOWN Text alike, and resolve as
\* plain text without a verbatim key
C10_ForcedPlainText ==
    /\ result.op \in {"HeaderBlock", "InputBlock", "ModalSlackView"} =>
           result.status \in {"ok", "InvalidUsageError"}
    /\ (Resolved /\ result.status = "ok" /\ obj.class = "HeaderBlock") =>
           PlainTextMapping(result.value.items["text"])
    /\ (Resolved /\ result.status = "ok" /\ obj.class = "InputBlock") =>
           /\ PlainTextMapping(result.value.items["label"])
           /\ "hint" \in DOMAIN result.value.items =>
                  PlainTextMapping(result.value.items["hint"])
    /\ (Resolved /\ result.status = "ok" /\ obj.class = "ModalSlackView") =>
           PlainTextMapping(result.value.items["title"])

\* the optional fields of each Element variant that resolve under a key of
\* their own name
OptionalKeys(class) ==
    CASE class = "Button" -> {"style", "url", "value", "confirm"}
      [] class = "TextInput" -> {"placeholder", "initial_value"}
      [] class = "StaticSelect" -> {"initial_option", "confirm"}
      [] class = "CheckboxSelector" -> {"initial_options", "confirm"}
      [] class = "MultiUsersSelect" ->
             {"initial_users", "max_selected_items", "confirm"}
      [] class = "TimePicker" -> {"initial_time", "confirm"}
      [] class = "DatePicker" -> {"initial_date", "confirm"}
      [] OTHER -> {}

\* C11: in the resolved mapping of an Element each optional field is a key
\* exactly when a non-empty value was supplied for it, whatever the other
\* optional fields are, and no key holds None
C11_OptionalKeys ==
    (Resolved /\ result.status = "ok") =>
        /\ \A k \in OptionalKeys(obj.class) :
               (k \in DOMAIN result.value.items) <=> Truthy(obj[k])
        /\ IsElement(obj) =>
               \A k \in DOMAIN result.value.items : result.value.items[k] # None

\* the last call was handed no Text object (Text.to_text measures those with
\* len, the subject of C2)
NoTextArgument ==
    /\ \A f \in DOMAIN result.args \ {"force_plaintext"} :
           result.args[f].class # "Text"
    /\ result.op = "SectionBlock" =>
           \/ result.args.fields.class # "list"
           \/ \A i \in 1..Len(result.args.fields.items) :
                  result.args.fields.items[i].class # "Text"

\* C12: no constructor and no _resolve call raises anything but
\* InvalidUsageError, and _resolve on a constructed Block or Element returns a
\* mapping
C12_FullyBuilt ==
    NoTextArgument =>
        /\ result.status \in {"ok", "InvalidUsageError"}
        /\ (Resolved /\ (IsBlock(obj) \/ IsElement(obj))) =>
               /\ result.status = "ok"
               /\ result.value.class = "dict"

\* C13: ImageBlock always returns a block whose title is a plain-text Text: a
\* MARKDOWN Text re-tagged with its content, a PLAIN Text as given, a string
\* as a Text of that content, and a single space when the title is absent or
\* empty; and the block resolves with a title key of type plain_text holding
\* that content
C13_ImageTitle ==
    /\ result.op = "ImageBlock" =>
           /\ result.status = "ok"
           /\ obj.title.class = "Text"
           /\ obj.title.text_type = PLAINTEXT
           /\ LET title == result.args.title
              IN  IF title.class = "Text"
                  THEN /\ obj.title.text = title.text
                       /\ title.text_type = PLAINTEXT => obj.title = title
                  ELSE IF Truthy(title) THEN obj.title.text = title
                  ELSE obj.title.text = Str(" ")
    /\ (Resolved /\ obj.class = "ImageBlock") =>
           /\ result.status = "ok"
           /\ "title" \in DOMAIN result.value.items
           /\ PlainTextMapping(result.value.items["title"])
           /\ result.value.items["title"].items["text"] = obj.title.text

\* an ImageBlock built from a MARKDOWN Text title (the re-tagged Text carries
\* the emoji field of the original, None) and resolved
C13_Witness ==
    /\ Resolved
    /\ obj.class = "ImageBlock"
    /\ obj.title.emoji = None
    /\ obj.title.text = Str("Hi")
    /\ result.status = "ok"
    /\ result.value.items["title"].items["type"] = Str("plain_text")

\* C14: a view holds the blocks it was given, in order (none when blocks was
\* omitted); when its _resolve returns, the blocks list of the mapping has
\* one entry per block, the i-th being what the i-th block resolves to; and
\* HomeSlackView._resolve raises exactly when one of its blocks does, with
\* the error of the first such block
C14_BlocksInOrder ==
    /\ (result.op \in {"HomeSlackView", "ModalSlackView"}
            /\ result.status = "ok") =>
           obj.blocks = IF result.args.blocks = None THEN List(<<>>)
                        ELSE result.args.blocks
    /\ (Resolved /\ IsView(obj)) =>
           LET bs == obj.blocks.items
               rs == [i \in 1..Len(bs) |-> resolve(bs[i])]
               bad == {i \in 1..Len(bs) : rs[i].status # "ok"}
           IN  /\ result.status = "ok" =>
                    /\ result.value.items["blocks"].class = "list"
                    /\ Len(result.value.items["blocks"].items) = Len(bs)
                    /\ \A i \in 1..Len(bs) :
                           result.value.items["blocks"].items[i] = rs[i].value
               /\ obj.class = "HomeSlackView" =>
                    /\ (result.status # "ok") <=> (bad # {})
                    /\ \A i \in bad :
                           (\A j \in bad : i <= j) => result.status = rs[i].status

\* a home view of two different blocks, resolved
C14_Witness ==
    /\ Resolved
    /\ obj.class = "HomeSlackView"
    /\ Len(obj.blocks.items) = 2
    /\ obj.blocks.items[1].class # obj.blocks.items[2].class
    /\ result.status = "ok"
    /\ Len(result.value.items["blocks"].items) = 2

\* C15: EmptyModalResponse resolves to the empty mapping, CloseModalResponse
\* to response_action alone, ErrorModalResponse to response_action and the
\* errors mapping it was given, UpdateModalResponse to response_action and
\* the resolved modal under view; UpdateModalResponse._resolve raises exactly
\* when the modal's _resolve does, and then InvalidUsageError
C15_ModalResponses ==
    Resolved =>
        LET keys == IF result.status = "ok" /\ result.value.class = "dict"
                    THEN DOMAIN result.value.items ELSE {}
        IN  /\ obj.class = "EmptyModalResponse" =>
                 /\ result.status = "ok"
                 /\ result.value = EmptyDict
            /\ obj.class = "CloseModalResponse" =>
                 /\ result.status = "ok"
                 /\ keys = {"response_action"}
            /\ obj.class = "ErrorModalResponse" =>
                 /\ result.status = "ok"
                 /\ keys = {"response_action", "errors"}
                 /\ result.value.items["errors"] = obj.errors
            /\ obj.class = "UpdateModalResponse" =>
                 LET view == resolve(obj.modal)
                 IN  /\ (result.status # "ok") <=> (view.status # "ok")
                     /\ result.status # "ok" =>
                            result.status = "InvalidUsageError"
                     /\ result.status = "ok" =>
                          /\ keys = {"response_action", "view"}
                          /\ result.value.items["view"] = view.value


\* the kind tag of each Element variant but Confirm (ElementType) and of each
\* Block variant (BlockType)
KindTag(class) ==
    CASE class = "Image" -> "image"
      [] class = "Button" -> "button"
      [] class = "TextInput" -> "plain_text_input"
      [] class = "StaticSelect" -> "static_select"
      [] class = "CheckboxSelector" -> "checkboxes"
      [] class = "MultiUsersSelect" -> "multi_users_select"
      [] class = "TimePicker" -> "timepicker"
      [] class = "DatePicker" -> "datepicker"
      [] class = "SectionBlock" -> "section"
      [] class = "DividerBlock" -> "divider"
      [] class = "ImageBlock" -> "image"
      [] class = "ActionsBlock" -> "actions"
      [] class = "ContextBlock" -> "context"
      [] class = "FileBlock" -> "file"
      [] class = "HeaderBlock" -> "header"
      [] class = "InputBlock" -> "input"

TaggedElements ==
    {"Image", "Button", "TextInput", "StaticSelect", "CheckboxSelector",
     "MultiUsersSelect", "TimePicker", "DatePicker"}

\* C16 as stated: the resolved mapping of every Element variant, Confirm
\* included, has the key type, and that of every Block variant has the keys
\* type and block_id.
C16_EveryVariantTyped ==
    (Resolved /\ result.status = "ok") =>
        /\ obj.class \in TaggedElements \cup {"Confirm"} =>
              "type" \in DOMAIN result.value.items
        /\ IsBlock(obj) => {"type", "block_id"} \subseteq DOMAIN result.value.items

\* C16: the resolved mapping of every Element variant other than Confirm
\* (Image, Button, TextInput, StaticSelect, CheckboxSelector,
\* MultiUsersSelect, TimePicker, DatePicker) has the key type holding the
\* variant's kind tag; the resolved mapping of every Block variant has the key
\* type holding the block's kind tag and the key block_id holding the block's
\* id; a resolved Confirm has exactly the keys title, text, confirm and deny,
\* and so no type.
C16_KindTags ==
    (Resolved /\ result.status = "ok") =>
        /\ obj.class \in TaggedElements =>
              /\ "type" \in DOMAIN result.value.items
              /\ result.value.items["type"] = Str(KindTag(obj.class))
        /\ IsBlock(obj) =>
              /\ {"type", "block_id"} \subseteq DOMAIN result.value.items
              /\ result.value.items["type"] = Str(KindTag(obj.class))
              /\ result.value.items["block_id"] = obj.block_id
        /\ obj.class = "Confirm" =>
              DOMAIN result.value.items = {"title", "text", "confirm", "deny"}

C16_Witness ==
    /\ Resolved
    /\ obj.class = "Confirm"
    /\ result.status = "ok"
    /\ "type" \notin DOMAIN result.value.items
    /\ result.value.items["title"].items["type"] = Str("plain_text")

=============================================================================
